---------------------------- MODULE Spec2Model ----------------------------
(***************************************************************************)
(* The functional common information of dit                                *)
(* (src/dit/multivariate/functional_common_information.py):                *)
(*   add_partition            the partition-function adapter               *)
(*   functional_markov_chain  the search over the partition lattice        *)
(*   functional_markov_chain_naive  the brute-force reference              *)
(*                                                                         *)
(* A distribution is a function from its outcomes (tuples, one symbol per  *)
(* random variable) to integer weights; the probability of an outcome is   *)
(* its weight over the total weight.  Entropies are fixed-point numbers,   *)
(* Scale units to the bit, computed from a table of base-2 logarithms.     *)
(* Random variables are numbered from 1 (Python numbers them from 0).      *)
(***************************************************************************)
EXTENDS Integers, Sequences, FiniteSets

VARIABLES
    dist,       \* the distribution handed to the function under study
    queue,      \* functional_markov_chain: the deque of pending partitions
    checked,    \* functional_markov_chain: the set of popped partitions
    optimal,    \* functional_markov_chain: the pair (entropy, distribution)
    optimal_b,  \* functional_markov_chain: the floor of the entropy
    pc,         \* "loop" in the search loop, else how the function ended
    part_arg,   \* add_partition: the list of blocks it is called with
    ret         \* add_partition: what the call produced

vars == <<dist, queue, checked, optimal, optimal_b, pc, part_arg, ret>>

---------------------------------------------------------------------------
(* Bounds of the model. *)

\* The largest weight of one outcome.
MaxW == 2

\* The symbols of the two random variables.
XVals == {0, 1}
YVals == {0, 1}

\* Every outcome a distribution of the model may hold.
Universe == {<<x, y>> : x \in XVals, y \in YVals}

\* The distributions of the model: every non-empty set of outcomes with
\* every assignment of weights 1..MaxW (dit trims zero-probability outcomes).
Dists ==
    UNION {[S -> 1..MaxW] : S \in (SUBSET Universe) \ {{}}}

---------------------------------------------------------------------------
(* The collaborators: entropy, dual total correlation, close, insert_rvf,  *)
(* normalize_rvs, partitions.                                              *)

\* One bit, in fixed-point units.
Scale == 1000000

\* The absolute tolerance of close, in fixed-point units.
Tol == 50

\* Log2Tab[n] is log2(n) in fixed-point units, rounded to nearest.
Log2Tab ==
    << 0, 1000000, 1584963, 2000000, 2321928, 2584963, 2807355, 3000000,
       3169925, 3321928, 3459432, 3584963, 3700440, 3807355, 3906891,
       4000000, 4087463, 4169925, 4247928, 4321928, 4392317, 4459432,
       4523562, 4584963, 4643856, 4700440, 4754888, 4807355, 4857981,
       4906891, 4954196, 5000000, 5044394, 5087463, 5129283, 5169925,
       5209453, 5247928, 5285402, 5321928 >>

Abs(x) == IF x < 0 THEN -x ELSE x

\* close(x, y): fixed-tolerance equality.
close(x, y) == Abs(x - y) <= Tol

RECURSIVE SumOver(_, _)
\* The sum of f over the set S.
SumOver(f, S) ==
    IF S = {} THEN 0
    ELSE LET x == CHOOSE x \in S : TRUE
         IN  f[x] + SumOver(f, S \ {x})

\* The outcome o restricted to the random variables idx.
Proj(o, idx) == [i \in idx |-> o[i]]

\* The marginal weights of d over the random variables idx.
marginal(d, idx) ==
    LET keys == {Proj(o, idx) : o \in DOMAIN d}
    IN  [k \in keys |-> SumOver(d, {o \in DOMAIN d : Proj(o, idx) = k})]

\* entropy(d, idx): the Shannon entropy, in fixed-point bits, of the joint
\* of the random variables idx:  sum_k p_k (log2 N - log2 m_k), p_k = m_k / N.
entropy(d, idx) ==
    LET m == marginal(d, idx)
        N == SumOver(d, DOMAIN d)
        t == [k \in DOMAIN m |-> m[k] * (Log2Tab[N] - Log2Tab[m[k]])]
    IN  SumOver(t, DOMAIN m) \div N

\* The conditional entropy H(a | c).
cond_entropy(d, a, c) == entropy(d, a \cup c) - entropy(d, c)

\* dual_total_correlation(d, rvs, crvs):
\*   H(all rvs | crvs) - sum_rv H(rv | the other rvs, crvs).
dual_total_correlation(d, rvs_, crvs_) ==
    LET all == UNION rvs_
        t   == [rv \in rvs_ |-> cond_entropy(d, rv, (all \ rv) \cup crvs_)]
    IN  cond_entropy(d, all, crvs_) - SumOver(t, rvs_)

\* normalize_rvs with rvs=None, crvs=None: every random variable on its
\* own, nothing conditioned on.
rvs == {{1}, {2}}
crvs == {}

\* insert_rvf(d, f): d with f's value appended to every outcome; "KeyError"
\* when f (a dict lookup) has no value for some outcome of d.
insert_rvf(d, f) ==
    IF DOMAIN d \subseteq DOMAIN f
    THEN [status |-> "ok",
          dist   |-> [o \in {x \o f[x] : x \in DOMAIN d}
                        |-> d[SubSeq(o, 1, Len(o) - 1)]]]
    ELSE [status |-> "KeyError", dist |-> <<>>]

RECURSIVE partitions(_)
\* partitions(S): every partition of the set S.
partitions(S) ==
    IF S = {} THEN {{}}
    ELSE LET x == CHOOSE x \in S : TRUE
         IN  UNION {{P \cup {{x}}} \cup {(P \ {b}) \cup {b \cup {x}} : b \in P}
                    : P \in partitions(S \ {x})}

---------------------------------------------------------------------------
(* add_partition *)

Max(S) == CHOOSE m \in S : \A n \in S : n <= m

\* invert_part with the size of the block in place of its position.
invert_part_by_size(part) ==
    [e \in UNION {part[i] : i \in DOMAIN part}
        |-> <<Cardinality(part[Max({i \in DOMAIN part : e \in part[i]})])>>]

\* invert_part = {e: (i,) for i, es in enumerate(part) for e in es}:
\* a later block overwrites the label an earlier block gave.
invert_part(part) ==
    [e \in UNION {part[i] : i \in DOMAIN part}
        |-> <<Max({i \in DOMAIN part : e \in part[i]}) - 1>>]

\* add_partition(dist, part), part a list of blocks.
add_partition(d, part) == insert_rvf(d, invert_part(part))

---------------------------------------------------------------------------
(* functional_markov_chain *)

RECURSIVE as_list(_)
\* The blocks of a frozenset part in the order it is iterated in.  The order
\* only decides which label names which block: H, B and the search read a
\* label only to tell blocks apart.  AddPartitionSpec runs add_partition
\* under every order.
as_list(part) ==
    IF part = {} THEN <<>>
    ELSE LET b == CHOOSE b \in part : TRUE
         IN  <<b>> \o as_list(part \ {b})

\* part = frozenset([ frozenset([o]) for o in dist.outcomes ])
finest(d) == {{o} : o \in DOMAIN d}

\* W = [dist.outcome_length()]: the index of the added random variable;
\* every outcome of the model has the length of the outcomes of Universe.
W == {Len(CHOOSE o \in Universe : TRUE) + 1}

\* Every distribution add_partition makes of a distribution of the model
\* and a partition of its outcomes.
AllAugmented ==
    UNION {{add_partition(dd, as_list(p)).dist : p \in partitions(DOMAIN dd)}
              : dd \in Dists}

\* The measures are pure functions of a distribution: they are worked out
\* once for every distribution the search can meet and looked up after.
HTable == [d \in AllAugmented |-> entropy(d, W)]
BTable == [d \in AllAugmented |-> dual_total_correlation(d, rvs, crvs \cup W)]

\* H = lambda d: entropy(d, W)
H(d) == HTable[d]

\* B = lambda d: dual_total_correlation(d, rvs, crvs+W)
B(d) == BTable[d]

\* The feasibility test left out: every partition counts as feasible.
Feasible_always(d) == TRUE

\* The feasibility test inverted.
Feasible_inverted(d) == ~close(B(d), 0)

\* if close(B(d), 0)
Feasible(d) == close(B(d), 0)

\* The comparison turned round: the larger entropy wins.
Better_reversed(h, best) == h >= best

\* The comparison made strict: on equal entropy the earlier candidate stays.
Better_strict(h, best) == h < best

\* if h <= optimal[0]
Better(h, best) == h <= best

\* The early exit left out.
AtFloor_never(h) == FALSE

\* The early exit taken within one bit of the floor.
AtFloor_within_a_bit(h) == h <= optimal_b + Scale

\* if close(h, optimal_b)
AtFloor(h) == close(h, optimal_b)

\* combinations(part, 2), as unordered pairs of blocks.
combinations2(part) == {pair \in SUBSET part : Cardinality(pair) = 2}

\* Every block merged in place of the two blocks of the pair.
merge_all(part, pair) == {UNION part}

\* frozenset([ p for p in part if p not in pair ] + [pair[0]|pair[1]])
merge(part, pair) == (part \ pair) \cup {UNION pair}

\* The successors of part, one for each pair of its blocks.
new_parts(part) == {merge(part, pair) : pair \in combinations2(part)}

\* The filter on the checked set left out.
unchecked_unfiltered(S, chk) == S

\* [ part for part in new_parts if part not in checked ]
unchecked(S, chk) == {p \in S : p \notin chk}

RECURSIVE sorted_sizes(_)
\* key=lambda p: sorted(map(len, p)): the block sizes, ascending.
sorted_sizes(p) ==
    IF p = {} THEN <<>>
    ELSE LET b == CHOOSE b \in p :
                    \A c \in p : Cardinality(b) <= Cardinality(c)
         IN  <<Cardinality(b)>> \o sorted_sizes(p \ {b})

\* Python's order of two lists: a < b.
list_less(a, b) ==
    \/ \E i \in 1..Len(a) :
          /\ i <= Len(b)
          /\ \A j \in 1..(i - 1) : a[j] = b[j]
          /\ a[i] < b[i]
    \/ /\ Len(a) < Len(b)
       /\ \A j \in 1..Len(a) : a[j] = b[j]

\* The partitions of every set of outcomes of the model.
AllPartitions == UNION {partitions(S) : S \in SUBSET Universe}

\* The sort key of every partition, worked out once.
KeyTable == [p \in AllPartitions |-> sorted_sizes(p)]

sort_key(p) == KeyTable[p]

\* sorted(S, key=sort_key, reverse=True): the runs descending by key.
sorted_runs_descending(S) ==
    LET keys    == {sort_key(p) : p \in S}
        rank(k) == Cardinality({k2 \in keys : list_less(k, k2)}) + 1
    IN  [i \in 1..Cardinality(keys) |-> {p \in S : rank(sort_key(p)) = i}]

\* sorted(S, key=sort_key) as a sequence of runs, ascending by key.  A run
\* is the set of the partitions with one key: their order in the sorted
\* list is that of the list comprehension over combinations(part, 2), which
\* is the iteration order of a frozenset.  The model leaves the order within
\* a run open until a partition of the run is popped.
sorted_runs(S) ==
    LET keys    == {sort_key(p) : p \in S}
        rank(k) == Cardinality({k2 \in keys : list_less(k2, k)}) + 1
    IN  [i \in 1..Cardinality(keys) |-> {p \in S : rank(sort_key(p)) = i}]

RECURSIVE reversed(_)
reversed(s) == IF s = <<>> THEN <<>> ELSE reversed(Tail(s)) \o <<Head(s)>>

\* queue.extend(items) in place of extendleft: the batch goes to the back.
extendleft_as_extend(q, runs) == q \o runs

\* queue.extendleft(items): each item in turn is pushed on the left, so the
\* items end up in front of the queue in reverse order.
extendleft(q, runs) == reversed(runs) \o q

\* queue[0] in place of queue.popleft(): the partition stays in the queue.
popleft_as_peek(q, part) == q

\* The queue after queue.popleft() returned part, a partition of the front run.
popleft(q, part) ==
    IF Head(q) = {part} THEN Tail(q)
    ELSE <<Head(q) \ {part}>> \o Tail(q)

\* The state after lines 114-132: the queue holds the finest partition, and
\* the best candidate is the finest partition.
InitSearch ==
    /\ dist \in Dists
    /\ optimal_b = dual_total_correlation(dist, rvs, crvs)
    /\ LET initial == add_partition(dist, as_list(finest(dist))).dist
       IN  optimal = [h |-> H(initial), d |-> initial]
    /\ queue = <<{finest(dist)}>>
    /\ checked = {}
    /\ pc = "loop"
    /\ part_arg = <<>>
    /\ ret = [status |-> "none", dist |-> <<>>]

\* optimal after the step that popped a feasible partition of entropy h.
update_optimal(h, d) ==
    IF Better(h, optimal.h) THEN [h |-> h, d |-> d] ELSE optimal

\* One turn of the loop that pops an infeasible partition.
PopInfeasible ==
    /\ pc = "loop"
    /\ queue # <<>>
    /\ \E part \in Head(queue) :
          LET d == add_partition(dist, as_list(part)).dist
          IN  /\ ~Feasible(d)
              /\ queue' = popleft(queue, part)
              /\ checked' = checked \cup {part}
              /\ UNCHANGED <<dist, optimal, optimal_b, pc, part_arg, ret>>

\* One turn of the loop that pops a feasible partition whose entropy is
\* close to optimal_b: break, and return optimal[1].
PopBreak ==
    /\ pc = "loop"
    /\ queue # <<>>
    /\ \E part \in Head(queue) :
          LET d == add_partition(dist, as_list(part)).dist
              h == H(d)
          IN  /\ Feasible(d)
              /\ AtFloor(h)
              /\ queue' = popleft(queue, part)
              /\ checked' = checked \cup {part}
              /\ optimal' = update_optimal(h, d)
              /\ pc' = "break"
              /\ UNCHANGED <<dist, optimal_b, part_arg, ret>>

\* One turn of the loop that pops a feasible partition and enqueues its
\* unchecked successors.
PopExpand ==
    /\ pc = "loop"
    /\ queue # <<>>
    /\ \E part \in Head(queue) :
          LET d == add_partition(dist, as_list(part)).dist
              h == H(d)
          IN  /\ Feasible(d)
              /\ ~AtFloor(h)
              /\ checked' = checked \cup {part}
              /\ optimal' = update_optimal(h, d)
              /\ \E new \in {unchecked(new_parts(part), checked')} :
                    queue' = extendleft(popleft(queue, part),
                                        sorted_runs(new))
              /\ UNCHANGED <<dist, optimal_b, pc, part_arg, ret>>

\* while queue: the queue is empty, return optimal[1].
Exhausted ==
    /\ pc = "loop"
    /\ queue = <<>>
    /\ pc' = "exhausted"
    /\ UNCHANGED <<dist, queue, checked, optimal, optimal_b, part_arg, ret>>

\* return optimal[1]
returned == optimal.d

\* functional_common_information: entropy(d, [dist.outcome_length()]) of
\* the distribution functional_markov_chain returned.
functional_common_information == entropy(returned, W)

\* functional_markov_chain_naive(dist): of the distributions add_partition
\* makes of all partitions of the outcomes, those with B close to 0, and of
\* these one of the least entropy.
functional_markov_chain_naive ==
    LET dists == {add_partition(dist, as_list(part)).dist :
                     part \in partitions(DOMAIN dist)}
        feas  == {d \in dists : close(B(d), 0)}
    IN  CHOOSE d \in feas : \A e \in feas : H(d) <= H(e)

Init == InitSearch

Next == PopInfeasible \/ PopBreak \/ PopExpand \/ Exhausted

Spec == Init /\ [][Next]_vars

\* The loop runs in one thread with nothing to wait for: a turn that can
\* be taken is taken.
FairSpec == Spec /\ WF_vars(Next)

---------------------------------------------------------------------------
(* add_partition called on its own, with any list of blocks. *)

\* Every list of at most n elements of S.
ListsUpTo(S, n) == UNION {[1..k -> S] : k \in 0..n}

\* One distribution for each set of outcomes: add_partition does not read
\* the probabilities.
EvenDists == {d \in Dists : \A o \in DOMAIN d : d[o] = MaxW}

\* The call add_partition(dist, part_arg) is about to be made: part_arg is
\* any list of at most as many blocks as dist has outcomes, a block any set
\* of outcomes.
InitAddPartition ==
    /\ dist \in EvenDists
    /\ part_arg \in ListsUpTo(SUBSET Universe, Cardinality(DOMAIN dist))
    /\ ret = [status |-> "none", dist |-> <<>>]
    /\ pc = "call"
    /\ queue = <<>>
    /\ checked = {}
    /\ optimal = [h |-> 0, d |-> <<>>]
    /\ optimal_b = 0

\* The call returns a distribution.
CallReturns ==
    /\ pc = "call"
    /\ add_partition(dist, part_arg).status = "ok"
    /\ ret' = add_partition(dist, part_arg)
    /\ pc' = "returned"
    /\ UNCHANGED <<dist, part_arg, queue, checked, optimal, optimal_b>>

\* The call raises.
CallRaises ==
    /\ pc = "call"
    /\ add_partition(dist, part_arg).status # "ok"
    /\ ret' = add_partition(dist, part_arg)
    /\ pc' = "raised"
    /\ UNCHANGED <<dist, part_arg, queue, checked, optimal, optimal_b>>

NextAddPartition == CallReturns \/ CallRaises

AddPartitionSpec == InitAddPartition /\ [][NextAddPartition]_vars

---------------------------------------------------------------------------
(* What the claims read off a state. *)

\* functional_markov_chain has returned.
Returned == pc \in {"break", "exhausted"}

\* An outcome of an augmented distribution without its last variable.
Base(o) == SubSeq(o, 1, Len(o) - 1)

\* The partition of the outcomes that the last variable of d induces.
Kernel(d) ==
    {{Base(o) : o \in {x \in DOMAIN d : x[Len(x)] = l}}
        : l \in {o[Len(o)] : o \in DOMAIN d}}

\* The augmented distribution of a partition.
Augmented(part) == add_partition(dist, as_list(part)).dist

\* The partitions pending in the queue.
Pending == UNION {queue[i] : i \in DOMAIN queue}

\* The total weight of the outcomes of dist that satisfy a test.
WeightX(x) == SumOver(dist, {o \in DOMAIN dist : o[1] = x})
WeightY(y) == SumOver(dist, {o \in DOMAIN dist : o[2] = y})
WeightAt(o) == IF o \in DOMAIN dist THEN dist[o] ELSE 0

\* The two random variables of dist are independent, exactly.
Independent ==
    \A x \in XVals, y \in YVals :
        WeightAt(<<x, y>>) * SumOver(dist, DOMAIN dist)
            = WeightX(x) * WeightY(y)

---------------------------------------------------------------------------
(* C1..C10 *)

\* C1: the distribution functional_markov_chain returns has the least
\* entropy among the feasible partitions of the outcomes: its entropy is
\* that of the result of functional_markov_chain_naive.
C1_MinimumEntropy ==
    Returned => H(returned) = H(functional_markov_chain_naive)

\* The search ran to the end of the queue, passed infeasible partitions,
\* and returned a partition of less entropy than the finest one.
C1_Witness ==
    /\ pc = "exhausted"
    /\ H(returned) < H(Augmented(finest(dist)))
    /\ \E p \in checked : ~close(B(Augmented(p)), 0)
    /\ H(returned) = H(functional_markov_chain_naive)

\* C2: the best candidate is feasible in every state of the search, so the
\* distribution returned is feasible on every exit path: B of it is within
\* tolerance of zero.
C2_ReturnedFeasible ==
    pc \in {"loop", "break", "exhausted"} => close(B(optimal.d), 0)

\* The search returned a candidate other than the initial one, having
\* passed an infeasible partition.
C2_Witness ==
    /\ Returned
    /\ Kernel(returned) # finest(dist)
    /\ close(B(returned), 0)
    /\ \E p \in checked : ~close(B(Augmented(p)), 0)

\* C3: the search loop terminates, and it ends with a candidate: the
\* augmented distribution of a partition of the outcomes.
C3_Terminates ==
    <>(Returned /\ Kernel(returned) \in partitions(DOMAIN dist))

\* The loop ended by exhausting the queue, for a distribution of four
\* outcomes, after popping more than four partitions.
C3_Witness ==
    /\ pc = "exhausted"
    /\ Cardinality(DOMAIN dist) = Cardinality(Universe)
    /\ Cardinality(checked) > Cardinality(Universe)

\* The blocks of part_arg that hold the outcome o.
BlocksOf(o) == {i \in DOMAIN part_arg : o \in part_arg[i]}

\* part_arg covers every outcome of dist exactly once.
ExactCover == \A o \in DOMAIN dist : Cardinality(BlocksOf(o)) = 1

\* C4: for a list of blocks that covers every outcome of dist exactly once,
\* add_partition returns a distribution with one outcome for each outcome of
\* dist: the outcome with one label appended, the same label for two
\* outcomes exactly when they are in the same block.
C4_LabelsNameBlocks ==
    (pc # "call" /\ ExactCover) =>
        /\ ret.status = "ok"
        /\ {Base(r) : r \in DOMAIN ret.dist} = DOMAIN dist
        /\ Cardinality(DOMAIN ret.dist) = Cardinality(DOMAIN dist)
        /\ \A r \in DOMAIN ret.dist : Len(r) = Len(Base(r)) + 1
        /\ \A r1, r2 \in DOMAIN ret.dist :
              (r1[Len(r1)] = r2[Len(r2)])
                 <=> (BlocksOf(Base(r1)) = BlocksOf(Base(r2)))

\* A partition of four outcomes into three blocks, one of two outcomes,
\* has been labelled.
C4_Witness ==
    /\ pc = "returned"
    /\ ExactCover
    /\ DOMAIN dist = Universe
    /\ Len(part_arg) > Cardinality(XVals)
    /\ \E i \in DOMAIN part_arg : Cardinality(part_arg[i]) > 1
    /\ Cardinality({r[Len(r)] : r \in DOMAIN ret.dist}) = Len(part_arg)

\* C5: the functional common information is at least optimal_b, the dual
\* total correlation of rvs given crvs on the original distribution, within
\* tolerance.
C5_AtLeastFloor ==
    Returned => functional_common_information >= optimal_b - Tol

\* The search returned above a floor that is not zero.
C5_Witness ==
    /\ Returned
    /\ optimal_b > Tol
    /\ functional_common_information > optimal_b + Tol

\* The distribution {00: 1/2, 11: 1/2}: one variable a copy of the other.
IsCopy ==
    /\ DOMAIN dist = {<<x, x>> : x \in XVals}
    /\ \A o, q \in DOMAIN dist : dist[o] = dist[q]

\* C6: for the distribution {00: 1/2, 11: 1/2} the functional variable
\* returned has an entropy of 1 bit, the entropy of the shared variable.
C6_CopyIsOneBit ==
    (Returned /\ IsCopy) =>
        /\ functional_common_information = Scale
        /\ functional_common_information = entropy(dist, {1})

\* The search has returned for the copy distribution.
C6_Witness == Returned /\ IsCopy /\ functional_common_information = Scale

\* C7: for two independent variables the search returns the one-block
\* partition, of zero entropy, whichever order tied successors are popped in.
C7_IndependentIsZero ==
    (Returned /\ Independent) =>
        /\ functional_common_information = 0
        /\ Kernel(returned) = {DOMAIN dist}

\* The search has returned the one-block partition of all four outcomes,
\* with partitions still pending.
C7_Witness ==
    /\ Returned
    /\ Independent
    /\ DOMAIN dist = Universe
    /\ Kernel(returned) = {Universe}
    /\ queue # <<>>

\* Some outcome of dist is in no block of part_arg, or in two or more.
Malformed == ~ExactCover

\* C8: add_partition rejects a malformed partition: the call ends in an
\* error and returns no labelled distribution.
C8_MalformedRejected ==
    (pc # "call" /\ Malformed) => (pc = "raised" /\ ret.status # "ok")

\* C9: the queue holds no partition twice and no partition of the checked
\* set, so no partition is popped twice; the successors of a partition are
\* as many as the pairs of its blocks, so no batch holds a partition twice.
C9_NoRepeats ==
    /\ \A i \in DOMAIN queue : queue[i] \cap checked = {}
    /\ \A i, j \in DOMAIN queue : i # j => queue[i] \cap queue[j] = {}
    /\ \A p \in checked :
          Cardinality(new_parts(p)) = Cardinality(combinations2(p))

\* A checked partition is a successor of two checked feasible partitions,
\* and partitions are still pending.
C9_Witness ==
    /\ pc = "loop"
    /\ queue # <<>>
    /\ \E p, a, b \in checked :
          /\ a # b
          /\ p \in new_parts(a) \cap new_parts(b)
          /\ close(B(Augmented(a)), 0)
          /\ close(B(Augmented(b)), 0)

\* A turn of the loop popped the partition p.
Popped(p) == p \in Pending /\ p \notin checked /\ p \in checked'

\* C10 as stated: first in, first out.  A popped partition has at least as
\* many blocks as every partition pending when it is popped.
C10_Fifo ==
    [][\A p \in Pending :
          Popped(p) =>
              \A q \in Pending : Cardinality(q) <= Cardinality(p)]_vars

\* C10 amended: last in, first out.  A popped partition is of the batch
\* enqueued last among those pending, so it has at most as many blocks as
\* every partition pending when it is popped, and the successors it
\* enqueues go in front of all of them.
C10_Lifo ==
    [][\A p \in Pending :
          Popped(p) =>
              /\ p \in Head(queue)
              /\ \A q \in Pending : Cardinality(p) <= Cardinality(q)
              /\ \A i \in DOMAIN queue' :
                    (queue'[i] \cap Pending = {})
                        => \A j \in 1..i : queue'[j] \cap Pending = {}]_vars

\* Batches of three depths are pending: successors in front of their
\* parent's siblings, in front of their grandparent's siblings.
C10_Witness ==
    /\ pc = "loop"
    /\ Len(queue) > 1
    /\ Cardinality({Cardinality(p) : p \in Pending}) > Cardinality(XVals)
    /\ \A i, j \in DOMAIN queue :
          i < j => \A p \in queue[i], q \in queue[j] :
                      Cardinality(p) <= Cardinality(q)

---------------------------------------------------------------------------
(* C11..C19 *)

\* The partitions pending with as many blocks as p: the batch p is of (the
\* queue holds one batch for each number of blocks, see C18).
Siblings(p) == {q \in Pending : Cardinality(q) = Cardinality(p)}

\* C11 as stated: within a batch the successors are popped in ascending
\* order of their sorted block sizes.  A popped partition has no pending
\* sibling of a smaller key.
C11_AscendingPops ==
    [][\A p \in Pending :
          Popped(p) =>
              \A q \in Siblings(p) :
                  ~list_less(sort_key(q), sort_key(p))]_vars

\* C11 amended: within a batch the successors are popped in descending
\* order of their sorted block sizes, extendleft having reversed the sorted
\* list.  A popped partition has no pending sibling of a larger key.
C11_DescendingPops ==
    [][\A p \in Pending :
          Popped(p) =>
              \A q \in Siblings(p) :
                  ~list_less(sort_key(p), sort_key(q))]_vars

\* Of the first batch of two-block partitions, one has been popped and a
\* sibling of a smaller key is still pending.
C11_Witness ==
    /\ pc = "loop"
    /\ \E a \in checked, p \in checked, q \in Pending :
          /\ {p, q} \subseteq new_parts(a)
          /\ {c \in checked : Cardinality(c) = Cardinality(p)} = {p}
          /\ list_less(sort_key(q), sort_key(p))

\* C12: the step that pops an infeasible partition adds it to the checked
\* set, takes it off the queue, and leaves the best candidate, the rest of
\* the queue and the loop alone; a step that puts a partition in the queue
\* is a step that pops a feasible partition.
C12_InfeasibleIsTerminal ==
    [][/\ \A p \in Pending :
             (Popped(p) /\ ~close(B(Augmented(p)), 0)) =>
                 /\ checked' = checked \cup {p}
                 /\ optimal' = optimal
                 /\ pc' = pc
                 /\ Pending' = Pending \ {p}
                 /\ queue' \in {Tail(queue),
                                <<Head(queue) \ {p}>> \o Tail(queue)}
       /\ (Pending' \ Pending # {}) =>
             \E p \in Pending :
                 Popped(p) /\ close(B(Augmented(p)), 0)]_vars

\* An infeasible partition of more than one block has been popped: none of
\* its successors is pending or checked, and the loop goes on with the
\* partitions still pending.
C12_Witness ==
    /\ pc = "loop"
    /\ queue # <<>>
    /\ \E p \in checked :
          /\ ~close(B(Augmented(p)), 0)
          /\ new_parts(p) # {}
          /\ new_parts(p) \cap (Pending \cup checked) = {}

\* p is a partition of the outcomes of dist: its blocks are not empty, no
\* two of them share an outcome, and together they hold every outcome.
ValidPartition(p) ==
    /\ \A b \in p : b # {}
    /\ \A b, c \in p : b # c => b \cap c = {}
    /\ UNION p = DOMAIN dist

\* s is p with exactly two of its blocks replaced by their union.
MergesTwo(p, s) ==
    \E b, c \in p :
        /\ b # c
        /\ s = (p \ {b, c}) \cup {b \cup c}

\* C13: every partition in the queue or the checked set is a valid
\* partition of the outcomes; the first one popped is the finest; every
\* successor enqueued by the pop of a parent of k blocks has k - 1 blocks
\* and is the parent with two of its blocks merged.
C13_ValidPartitions ==
    /\ [](pc \in {"loop", "break", "exhausted"} =>
            /\ \A p \in Pending \cup checked : ValidPartition(p)
            /\ checked = {} => queue = <<{finest(dist)}>>
            /\ checked # {} => finest(dist) \in checked
            /\ \A b \in finest(dist) : Cardinality(b) = 1)
    /\ [][\A p \in Pending :
             Popped(p) =>
                 \A s \in Pending' \ Pending :
                     /\ Cardinality(s) = Cardinality(p) - 1
                     /\ MergesTwo(p, s)]_vars

\* Successors of two generations are pending: three-block and two-block
\* partitions of four outcomes, blocks of one, two and three outcomes.
C13_Witness ==
    /\ pc = "loop"
    /\ DOMAIN dist = Universe
    /\ \A p \in Pending \cup checked : ValidPartition(p)
    /\ {Cardinality(p) : p \in Pending} = {2, 3}
    /\ {Cardinality(b) : b \in UNION Pending} = {1, 2, 3}

\* C14: the entropy of the best candidate never increases from one step to
\* the next, and the candidate is replaced exactly by the pop of a feasible
\* partition of an entropy less than or equal to the best: on equal entropy
\* the partition popped last is kept.
C14_BestNeverIncreases ==
    [][/\ optimal'.h <= optimal.h
       /\ \A p \in Pending :
             Popped(p) =>
                 LET d == Augmented(p)
                 IN  IF close(B(d), 0) /\ H(d) <= optimal.h
                     THEN optimal' = [h |-> H(d), d |-> d]
                     ELSE optimal' = optimal
       /\ (\A p \in Pending : ~Popped(p)) => optimal' = optimal]_vars

\* Two feasible partitions of equal entropy, neither the finest, have been
\* popped, and one of them is the best candidate: the one popped last took
\* the place of the other.
C14_Witness ==
    /\ pc = "loop"
    /\ \E p, q \in checked \ {finest(dist)} :
          /\ p # q
          /\ optimal.d = Augmented(p)
          /\ close(B(Augmented(q)), 0)
          /\ H(Augmented(q)) = optimal.h
          /\ optimal.h < H(Augmented(finest(dist)))

\* C15: the step that pops a feasible partition of an entropy close to
\* optimal_b ends the search: it enqueues nothing, the candidate it leaves
\* has an entropy close to optimal_b, and once the search has ended by the
\* break nothing is popped although partitions may be pending.
C15_EarlyExit ==
    /\ [][/\ \A p \in Pending :
                (/\ Popped(p)
                 /\ close(B(Augmented(p)), 0)
                 /\ close(H(Augmented(p)), optimal_b)) =>
                    /\ pc' = "break"
                    /\ Pending' = Pending \ {p}
                    /\ close(optimal'.h, optimal_b)
          /\ pc = "break" => UNCHANGED vars]_vars
    /\ [](pc = "break" => close(H(returned), optimal_b))

\* The search ended by the break at a floor above zero, at a partition that
\* has a successor: the successor was never generated.
C15_Witness ==
    /\ pc = "break"
    /\ optimal_b > Tol
    /\ close(H(returned), optimal_b)
    /\ new_parts(Kernel(returned)) # {}
    /\ new_parts(Kernel(returned)) \cap (Pending \cup checked) = {}

RECURSIVE MergeClosure(_)
\* S with the successors of its feasible partitions, and theirs, and so on.
MergeClosure(S) ==
    LET more == S \cup UNION {new_parts(p) :
                        p \in {q \in S : close(B(Augmented(q)), 0)}}
    IN  IF more = S THEN S ELSE MergeClosure(more)

\* The partitions reachable from the finest one by a chain of merges of two
\* blocks in which every partition that is merged further is feasible.
FeasiblyReachable == MergeClosure({finest(dist)})

\* C16: when the search ends with the queue empty, every partition
\* reachable from the finest one by merges of feasible partitions is in the
\* checked set.
C16_AllReachableChecked ==
    pc = "exhausted" => FeasiblyReachable \subseteq checked

\* The search ended with the queue empty, having checked every reachable
\* partition, infeasible ones among them, and some partition of the outcomes
\* is not reachable.
C16_Witness ==
    /\ pc = "exhausted"
    /\ FeasiblyReachable = checked
    /\ \E p \in checked : ~close(B(Augmented(p)), 0)
    /\ partitions(DOMAIN dist) \ checked # {}

\* The feasible partitions popped so far.
CheckedFeasible == {p \in checked : close(B(Augmented(p)), 0)}

\* C17: between two steps of the loop the best candidate is the augmented
\* distribution of the finest partition or of a feasible checked partition,
\* optimal[0] is its entropy, and that entropy is at most the entropy of
\* the finest partition and of every feasible checked partition.
C17_BestOfChecked ==
    pc \in {"loop", "break", "exhausted"} =>
        /\ \E p \in {finest(dist)} \cup CheckedFeasible :
              optimal.d = Augmented(p)
        /\ optimal.h = H(optimal.d)
        /\ optimal.h <= H(Augmented(finest(dist)))
        /\ \A p \in CheckedFeasible : optimal.h <= H(Augmented(p))

\* The loop is running with a best candidate other than the finest
\* partition, feasible partitions of three different entropies popped, and
\* partitions pending.
C17_Witness ==
    /\ pc = "loop"
    /\ queue # <<>>
    /\ Kernel(optimal.d) \in CheckedFeasible \ {finest(dist)}
    /\ Cardinality({H(Augmented(p)) : p \in CheckedFeasible})
          > Cardinality(XVals)
    /\ \A p \in CheckedFeasible : optimal.h <= H(Augmented(p))

\* C18: the numbers of blocks of the queued partitions, front to back, never
\* decrease, and the queued partitions of one number of blocks are
\* successors of one and the same popped feasible partition (the finest
\* partition, queued at the start, is alone and has no parent).
C18_QueueLayered ==
    pc \in {"loop", "break", "exhausted"} =>
        /\ \A i, j \in DOMAIN queue :
              i < j => \A p \in queue[i], q \in queue[j] :
                          Cardinality(p) <= Cardinality(q)
        /\ \A p \in Pending :
              \/ Siblings(p) = {finest(dist)}
              \/ \E a \in CheckedFeasible : Siblings(p) \subseteq new_parts(a)

\* Two batches are pending, each of more than one partition, the batch of
\* fewer blocks in front, and the two have different parents.
C18_Witness ==
    /\ pc = "loop"
    /\ \E p, q \in Pending :
          /\ Cardinality(p) < Cardinality(q)
          /\ Cardinality(Siblings(p)) > 1
          /\ Cardinality(Siblings(q)) > 1
          /\ p \in Head(queue)
          /\ \E a, b \in CheckedFeasible :
                /\ Siblings(p) \subseteq new_parts(a)
                /\ Siblings(q) \subseteq new_parts(b)
                /\ p \notin new_parts(b)

RECURSIVE FixedOrderRun(_, _, _)
\* The candidate the loop returns from the queue q, the checked set chk and
\* the candidate opt when every tie is broken one fixed way: the partition
\* popped from the front run is the one CHOOSE picks.
FixedOrderRun(q, chk, opt) ==
    IF q = <<>> THEN opt
    ELSE LET part == CHOOSE p \in Head(q) : TRUE
             d    == Augmented(part)
             h    == H(d)
             rest == popleft(q, part)
             chk2 == chk \cup {part}
             opt2 == IF Better(h, opt.h) THEN [h |-> h, d |-> d] ELSE opt
         IN  IF ~Feasible(d) THEN FixedOrderRun(rest, chk2, opt)
             ELSE IF AtFloor(h) THEN opt2
             ELSE FixedOrderRun(
                      extendleft(rest,
                                 sorted_runs(unchecked(new_parts(part), chk2))),
                      chk2, opt2)

\* The candidate of the fixed-order run on dist.
FixedOrderResult ==
    LET initial == Augmented(finest(dist))
    IN  FixedOrderRun(<<{finest(dist)}>>, {}, [h |-> H(initial), d |-> initial])

\* C19: the entropy of the returned candidate is the same in every order
\* of the ties: whatever order this run popped tied successors in, its
\* entropy is that of the run on the same input with the ties in the fixed
\* order, so any two runs on one input return equal entropies.
C19_TieOrderIrrelevant ==
    Returned => H(returned) = FixedOrderResult.h

\* The search returned a partition other than the one the fixed-order run
\* returns, of the same entropy, having popped partitions the fixed-order
\* run leaves a choice about.
C19_Witness ==
    /\ Returned
    /\ returned # FixedOrderResult.d
    /\ H(returned) = FixedOrderResult.h
    /\ \E p, q \in checked : p # q /\ sort_key(p) = sort_key(q)

===========================================================================
